---- MODULE Spec2Model ----
(***************************************************************************)
(* Model of muoviti's grid compositing / slicing utilities and image       *)
(* transforms (src/core/grid_utils.py), of the frame/time mapper            *)
(* (src/core/video.py), of the frame selector (src/ui/frame_selector.py),   *)
(* of the generation panel with its workers and the pixel snapper           *)
(* (src/ui/generation_panel.py, src/core/genai_client.py,                   *)
(* src/core/pixel_snapper.py), of the download worker and of the video     *)
(* player's frame stepping with the metadata it reads                       *)
(* (src/ui/video_player.py, VideoHandler.get_metadata in src/core/video.py). *)
(* Each part has its own specification; the variables of the other parts    *)
(* stay at their idle values.                                               *)
(*                                                                         *)
(* An image is a record [w, h, bg, pastes]: a canvas of w x h pixels       *)
(* created with fill bg, onto which the pastes were done in order.  The    *)
(* pixel at (x, y) is the pixel of the last paste covering it, or          *)
(* background.  A pasted pixel is <<src, u, v>>: pixel (u, v) of the       *)
(* resampled frame number src (1-based position in the frame list); the    *)
(* resampled colour itself is not modelled.  Background is <<0, 0, 0>>.    *)
(***************************************************************************)
EXTENDS Integers, Sequences, FiniteSets, TLC

VARIABLES
    cols,        \* grid shape argument
    rows,        \* grid shape argument
    resolution,  \* requested resolution (create_reference_grid / calculate_sprite_size)
    frames,      \* the list of frame paths, each entry the [w, h] of the image at that path
    pc,          \* position of the grid scenario
    sprite,      \* result of calculate_sprite_size
    grid,        \* result of create_reference_grid / compose_grid
    sliced,      \* result of slice_grid
    frame_num,   \* frame index given to frame_to_time
    fps,         \* frame rate (an integer-valued float, ffprobe's "N/1")
    time_sec,    \* the float returned by frame_to_time
    frame_out,   \* the int returned by time_to_frame
    time_status, \* "ok", or the exception a call of the frame/time mapper raised
    tpc,         \* position of the frame/time scenario
    image,       \* the [w, h] of the image given to an image transform
    transformed, \* what the transform returned
    selector_frames, \* FrameSelectorWidget.frames: the frames, each named by its extraction number
    grid_combo,  \* the selector's grid size <<cols, rows>>
    extracted,   \* number of frames the video player has extracted so far
    selection,   \* the FrameSelection handed to the generation worker
    reference,   \* the reference composite the worker built from the selection
    runs,        \* the GenerationWorkers created so far, in order, each with its history
    worker,      \* GenerationPanelWidget.worker: index in runs of the latest worker, 0 for None
    output_path, \* GenerationPanelWidget.output_path
    status_label, \* text shown by the panel's status label
    btn_generate, \* the panel's Generate button is enabled
    progress_bar, \* the panel's progress bar is shown
    dl_pc,       \* position of DownloadWorker.run
    yt_stream,   \* number of the file yt-dlp is downloading (0 before the first)
    yt_percent,  \* the last percentage yt-dlp printed for that file, -1 for none
    yt_merged,   \* yt-dlp printed its Merger line
    filepath,    \* DownloadWorker.run's local filepath
    progress_updates, \* the percentages emitted with the progress signal, in order
    download_signals, \* the terminal signals DownloadWorker.run emitted, in order
    probed,      \* what ffprobe reported for the video: nb_frames, duration, r_frame_rate
    metadata,    \* VideoPlayerWidget.metadata
    frame_spinbox, \* value of the frame spinbox: the displayed frame counter
    position,    \* QMediaPlayer position in milliseconds
    echo,        \* a positionChanged signal of the player is pending
    requested    \* the last seek: frame asked for, time_ms given to setPosition

gridVars == <<cols, rows, resolution, frames, pc, sprite, grid, sliced>>

timeVars == <<frame_num, fps, time_sec, frame_out, time_status, tpc>>

transformVars == <<image, transformed>>

selectorVars == <<selector_frames, grid_combo, extracted, selection, reference>>

panelVars == <<runs, worker, output_path, status_label, btn_generate, progress_bar>>

downloadVars == <<dl_pc, yt_stream, yt_percent, yt_merged, filepath,
                  progress_updates, download_signals>>

playerVars == <<probed, metadata, frame_spinbox, position, echo, requested>>

vars == <<gridVars, timeVars, transformVars, selectorVars, panelVars, downloadVars,
          playerVars>>

\* what the grid utilities leave alone
nonGridVars == <<timeVars, transformVars, selectorVars, panelVars, downloadVars,
     playerVars>>

\* what the frame/time mapper leaves alone
nonTimeVars == <<gridVars, transformVars, selectorVars, panelVars, downloadVars,
     playerVars>>

\* what the image transforms leave alone
nonTransformVars == <<gridVars, timeVars, selectorVars, panelVars, downloadVars,
     playerVars>>

\* what the frame selector and its template run leave alone
nonSelectorVars == <<gridVars, timeVars, transformVars, panelVars, downloadVars,
     playerVars>>

\* what the generation panel and its workers leave alone
nonPanelVars == <<gridVars, timeVars, transformVars, selectorVars, downloadVars,
     playerVars>>

\* what the download worker leaves alone
nonDownloadVars == <<gridVars, timeVars, transformVars, selectorVars, panelVars,
     playerVars>>

\* what the video player leaves alone
nonPlayerVars == <<gridVars, timeVars, transformVars, selectorVars, panelVars,
     downloadVars>>

----------------------------------------------------------------------------
(* Bounds of the model *)

MaxDim == 3

MaxRes == 7

MaxSprite == 2

MaxExtra == 2

MaxImg == 5

MaxFrameNum == 40

MaxFps == 30

\* timestamps are k / 2^j for |k| <= MaxStamp, j <= MaxShift
MaxStamp == 5

MaxShift == 2

\* invalid rates go down to -MaxBadRate
MaxBadRate == 2

\* image sides given to the transforms, besides the 1920x1080 video frame
MaxSide == 4

\* frames extracted from the video in one session
MaxExtracted == 5

\* generation workers created in one session
MaxRuns == 2

\* files yt-dlp downloads for one video: the video and the audio stream
MaxStreams == 2

\* a percentage yt-dlp prints between 0 and 100
MidPercent == 50

\* frame counts ffprobe reports (nb_frames)
MaxNbFrames == 3

\* durations ffprobe reports are k / 2^MaxShift seconds, k <= MaxDuration
MaxDuration == 2

\* shapes include the invalid ones (0 and negative)
ShapeRange == (0 - 1)..MaxDim

\* every frame of one selection comes from the same video: one size for all
FrameSizes == {[w |-> 1, h |-> 1], [w |-> 3, h |-> 2], [w |-> 2, h |-> 5]}

MaxFrames == MaxDim * MaxDim + MaxExtra

\* sides of an image file handed to slice_grid that no compose produced
ImageSides == (0..MaxImg) \cup {1024}

----------------------------------------------------------------------------
(* Python integer arithmetic *)

\* a // b for b # 0 (floor division, whatever the signs)
PyFloorDiv(a, b) == IF b > 0 THEN a \div b ELSE (0 - a) \div (0 - b)

\* a % b for b # 0 (sign of the divisor)
PyMod(a, b) == a - b * PyFloorDiv(a, b)

PyMax(a, b) == IF a >= b THEN a ELSE b

PyMin(a, b) == IF a <= b THEN a ELSE b

\* range(n) as the sequence 0, 1, ..., n-1 (empty for n <= 0)
PyRange(n) == IF n <= 0 THEN <<>> ELSE [i \in 1..n |-> i - 1]

----------------------------------------------------------------------------
(* Images *)

Background == <<0, 0, 0>>

NoImage == [w |-> 0, h |-> 0, bg |-> "none", pastes |-> <<>>]

\* Image.new(mode, (w, h), colour)
ImageNew(w, h, bg) == [w |-> w, h |-> h, bg |-> bg, pastes |-> <<>>]

\* grid.paste(frame, (x, y)): the frame's s x s pixels overwrite the region at (x, y)
ImagePaste(img, src, x, y, s, box) ==
    [img EXCEPT !.pastes = Append(@, [src |-> src, x |-> x, y |-> y, s |-> s, box |-> box])]

Covers(p, x, y) == /\ p.x <= x /\ x < p.x + p.s
                   /\ p.y <= y /\ y < p.y + p.s

RECURSIVE PixelFrom(_, _, _, _)
PixelFrom(pastes, k, x, y) ==
    IF k = 0 THEN Background
    ELSE IF Covers(pastes[k], x, y)
         THEN <<pastes[k].src, x - pastes[k].x, y - pastes[k].y>>
         ELSE PixelFrom(pastes, k - 1, x, y)

\* the pixel of img at (x, y), 0 <= x < img.w, 0 <= y < img.h
PixelAt(img, x, y) == PixelFrom(img.pastes, Len(img.pastes), x, y)

----------------------------------------------------------------------------
(* Python floats: IEEE 754 binary64, round to nearest, ties to even.          *)
(* A float is [neg, m, e]: the value (-1)^neg * M * 2^e, where m is the binary *)
(* expansion of the natural number M, least significant bit first, without     *)
(* leading or trailing zero bits (so M is odd, or m = <<>> for 0.0), and at    *)
(* most MantissaBits long.  Exponents stay far from the overflow and           *)
(* underflow thresholds for the values drawn here.                             *)

MantissaBits == 53

RECURSIVE BitsOf(_)
BitsOf(n) == IF n = 0 THEN <<>> ELSE <<n % 2>> \o BitsOf(n \div 2)

RECURSIVE IntOf(_)
IntOf(bits) == IF bits = <<>> THEN 0 ELSE bits[1] + 2 * IntOf(Tail(bits))

RECURSIVE Pow2(_)
Pow2(k) == IF k = 0 THEN 1 ELSE 2 * Pow2(k - 1)

Zeros(k) == [i \in 1..k |-> 0]

\* the positions of the one bits
Ones(bits) == {i \in 1..Len(bits) : bits[i] = 1}

Highest(S) == CHOOSE i \in S : \A j \in S : j <= i

Lowest(S) == CHOOSE i \in S : \A j \in S : i <= j

\* bits without leading zero bits
StripHigh(bits) ==
    IF Ones(bits) = {} THEN <<>> ELSE SubSeq(bits, 1, Highest(Ones(bits)))

\* bits * 2^e without trailing zero bits
StripLow(bits, e) ==
    IF Ones(bits) = {} THEN [m |-> <<>>, e |-> 0]
    ELSE [m |-> SubSeq(bits, Lowest(Ones(bits)), Len(bits)),
          e |-> e + Lowest(Ones(bits)) - 1]

\* bits + 1
Inc(bits) ==
    LET zeros == {i \in 1..Len(bits) : bits[i] = 0}
    IN  IF zeros = {} THEN Zeros(Len(bits)) \o <<1>>
        ELSE [i \in 1..Len(bits) |->
                 IF i < Lowest(zeros) THEN 0
                 ELSE IF i = Lowest(zeros) THEN 1 ELSE bits[i]]

\* Long arithmetic works on digits of LimbBits bits (least significant first)
LimbBits == 12

LimbBase == Pow2(LimbBits)

BitAt(bits, i) == IF i <= Len(bits) THEN bits[i] ELSE 0

LimbsOf(bits) ==
    [j \in 1..((Len(bits) + LimbBits - 1) \div LimbBits) |->
        IntOf([i \in 1..LimbBits |-> BitAt(bits, (j - 1) * LimbBits + i)])]

BitsOfLimbs(limbs) ==
    StripHigh([i \in 1..(Len(limbs) * LimbBits) |->
                  (limbs[(i - 1) \div LimbBits + 1] \div Pow2((i - 1) % LimbBits)) % 2])

\* limbs * n for a natural number n, with the carry of the lower digits
RECURSIVE MulLimbs(_, _, _)
MulLimbs(limbs, n, carry) ==
    IF limbs = <<>>
    THEN IF carry = 0 THEN <<>> ELSE <<carry % LimbBase>> \o MulLimbs(<<>>, n, carry \div LimbBase)
    ELSE <<(limbs[1] * n + carry) % LimbBase>>
             \o MulLimbs(Tail(limbs), n, (limbs[1] * n + carry) \div LimbBase)

\* bits * n
MulBits(bits, n) == BitsOfLimbs(MulLimbs(LimbsOf(bits), n, 0))

\* long division of limbs by n > 0, from the most significant digit (position k)
\* down; q collects the quotient digits, r is the running remainder
RECURSIVE DivLimbs(_, _, _, _, _)
DivLimbs(limbs, n, k, q, r) ==
    IF k = 0 THEN [q |-> q, r |-> r]
    ELSE DivLimbs(limbs, n, k - 1,
                  <<(r * LimbBase + limbs[k]) \div n>> \o q,
                  (r * LimbBase + limbs[k]) % n)

\* quotient and remainder of bits by n > 0
DivBits(bits, n) ==
    LET d == DivLimbs(LimbsOf(bits), n, Len(LimbsOf(bits)), <<>>, 0)
    IN  [q |-> BitsOfLimbs(d.q), r |-> d.r]

\* the float nearest to (-1)^neg * (bits + f) * 2^e, where 0 <= f < 1 and sticky
\* says f > 0; ties go to the even mantissa
RoundFloat(neg, bits, e, sticky) ==
    IF Len(bits) <= MantissaBits
    THEN LET n == StripLow(bits, e) IN [neg |-> neg, m |-> n.m, e |-> n.e]
    ELSE LET d == Len(bits) - MantissaBits
             kept == SubSeq(bits, d + 1, Len(bits))
             half == bits[d] = 1
             below == sticky \/ \E i \in 1..(d - 1) : bits[i] = 1
             up == half /\ (below \/ kept[1] = 1)
             n == StripLow(IF up THEN Inc(kept) ELSE kept, e + d)
         IN  [neg |-> neg, m |-> n.m, e |-> n.e]

Abs(n) == IF n < 0 THEN 0 - n ELSE n

\* float(n) for an int n (exact: |n| < 2^53)
FloatOfInt(n) == RoundFloat(n < 0, BitsOf(Abs(n)), 0, FALSE)

\* x * float(n)
FloatMul(x, n) ==
    RoundFloat(x.neg # (n < 0), MulBits(x.m, Abs(n)), x.e, FALSE)

\* x / float(n), n # 0: the quotient is computed to more than MantissaBits + 1
\* bits, the remainder makes the sticky bit
FloatDiv(x, n) ==
    IF x.m = <<>> THEN [neg |-> x.neg # (n < 0), m |-> <<>>, e |-> 0]
    ELSE LET k == MantissaBits + 2 + Len(BitsOf(Abs(n)))
             num == Zeros(k) \o x.m
             d == DivBits(num, Abs(n))
         IN  RoundFloat(x.neg # (n < 0), d.q, x.e - k, d.r # 0)

\* int(x): truncation toward zero
PyInt(x) ==
    LET mag == IF x.e >= 0 THEN IntOf(x.m) * Pow2(x.e)
               ELSE IF 0 - x.e >= Len(x.m) THEN 0
               ELSE IntOf(SubSeq(x.m, 1 - x.e, Len(x.m)))
    IN  IF x.neg THEN 0 - mag ELSE mag

----------------------------------------------------------------------------
(* video.py: VideoHandler.time_to_frame / frame_to_time *)

\* int(time_sec * fps)
time_to_frame(time, rate) == PyInt(FloatMul(time, rate))

\* frame_num / fps
frame_to_time(frame, rate) ==
    IF rate = 0 THEN [status |-> "ZeroDivisionError", value |-> FloatOfInt(0)]
    ELSE [status |-> "ok", value |-> FloatDiv(FloatOfInt(frame), rate)]

----------------------------------------------------------------------------
(* grid_utils.py *)

calculate_sprite_size_ceil(res, c, r) ==
    IF PyMax(c, r) = 0
    THEN [status |-> "ZeroDivisionError", value |-> 0]
    ELSE [status |-> "ok", value |-> PyFloorDiv(res + PyMax(c, r) - 1, PyMax(c, r))]

\* resolution // max(cols, rows)
calculate_sprite_size(res, c, r) ==
    IF PyMax(c, r) = 0
    THEN [status |-> "ZeroDivisionError", value |-> 0]
    ELSE [status |-> "ok", value |-> PyFloorDiv(res, PyMax(c, r))]

center_crop_square_corner(w, h) ==
    LET size == PyMin(w, h)
    IN  [left |-> w - size, top |-> h - size, right |-> w, bottom |-> h]

\* the crop box of center_crop_square for a w x h image
center_crop_square(w, h) ==
    LET size == PyMin(w, h)
        left == PyFloorDiv(w - size, 2)
        top == PyFloorDiv(h - size, 2)
    IN  [left |-> left, top |-> top, right |-> left + size, bottom |-> top + size]

\* image.crop(box): the region is box.right - box.left wide, box.bottom - box.top
\* high, and starts at (box.left, box.top); a region of no pixels is an image too
ImageCrop(box) ==
    [op |-> "center_crop_square", status |-> "ok",
     w |-> box.right - box.left, h |-> box.bottom - box.top,
     x |-> box.left, y |-> box.top, resolution |-> 0]

pad_to_square_corner(w, h) ==
    [op |-> "pad_to_square", status |-> "ok", w |-> PyMax(w, h), h |-> PyMax(w, h),
     x |-> 0, y |-> 0, resolution |-> 0]

\* pad_to_square: a size x size canvas, size = max(width, height), with the
\* image pasted at (x, y)
pad_to_square(w, h) ==
    LET size == PyMax(w, h)
    IN  [op |-> "pad_to_square", status |-> "ok", w |-> size, h |-> size,
         x |-> PyFloorDiv(size - w, 2), y |-> PyFloorDiv(size - h, 2), resolution |-> 0]

\* the pixel (px, py) of the canvas pad_to_square returns for img: Image.new
\* fills it with fill_color, paste overwrites the img.w x img.h region at
\* (t.x, t.y) with the pixels of img
PaddedPixel(t, img, px, py) ==
    IF /\ t.x <= px /\ px < t.x + img.w
       /\ t.y <= py /\ py < t.y + img.h
    THEN <<"image", px - t.x, py - t.y>>
    ELSE <<"fill_color", 0, 0>>

TransformFailed(op, status, res) ==
    [op |-> op, status |-> status, w |-> 0, h |-> 0, x |-> 0, y |-> 0, resolution |-> res]

WholeImage(w, h) == [left |-> 0, top |-> 0, right |-> w, bottom |-> h]

\* an operation that raised: no image is returned
Failed(status, mode, opened) ==
    [status |-> status, mode |-> mode, img |-> NoImage, opened |-> opened, cell |-> 0]

CellRow_onebased(idx, c) == PyFloorDiv(idx + 1, c)

\* row = idx // cols
CellRow(idx, c) == PyFloorDiv(idx, c)

\* col = idx % cols
CellCol(idx, c) == PyMod(idx, c)

LoopBreaks_late(idx, c, r) == idx > c * r

\* if idx >= cols * rows: break
LoopBreaks(idx, c, r) == idx >= c * r

PasteXY_swapped(row, col, s) == [x |-> row * s, y |-> col * s]

\* x = col * cell_size ; y = row * cell_size
PasteXY(row, col, s) == [x |-> col * s, y |-> row * s]

\* frame.resize((s, s), LANCZOS): Pillow refuses a size below 1
ResizeFails(s) == s < 1

\* the body of "for idx, frame_path in enumerate(frames)", from idx (0-based) on;
\* st is the result so far: the canvas and the set of indices whose file was opened
\* resize_to_resolution: scale = resolution / max(width, height);
\* image.resize((int(width * scale), int(height * scale)))
resize_to_resolution(w, h, res) ==
    IF PyMax(w, h) = 0
    THEN TransformFailed("resize_to_resolution", "ZeroDivisionError", res)
    ELSE LET scale == FloatDiv(FloatOfInt(res), PyMax(w, h))
             new_width == PyInt(FloatMul(scale, w))
             new_height == PyInt(FloatMul(scale, h))
         IN  IF ResizeFails(new_width) \/ ResizeFails(new_height)
             THEN TransformFailed("resize_to_resolution", "ValueError", res)
             ELSE [op |-> "resize_to_resolution", status |-> "ok",
                   w |-> new_width, h |-> new_height, x |-> 0, y |-> 0,
                   resolution |-> res]

RECURSIVE PasteLoop(_, _, _, _, _, _, _)
PasteLoop(mode, fr, c, r, s, idx, st) ==
    IF idx >= Len(fr) THEN st
    ELSE IF LoopBreaks(idx, c, r) THEN st
    ELSE IF c = 0 THEN Failed("ZeroDivisionError", mode, st.opened)
    ELSE LET row == CellRow(idx, c)
             col == CellCol(idx, c)
             frame == fr[idx + 1]
             box == IF mode = "reference"
                    THEN center_crop_square(frame.w, frame.h)
                    ELSE WholeImage(frame.w, frame.h)
             opened == st.opened \cup {idx}
         IN  IF ResizeFails(s)
             THEN Failed("ValueError", mode, opened)
             ELSE PasteLoop(mode, fr, c, r, s, idx + 1,
                      [st EXCEPT !.opened = opened,
                                 !.img = ImagePaste(@, idx + 1, PasteXY(row, col, s).x,
                                                    PasteXY(row, col, s).y, s, box)])

ReferenceGridSize_cols(cell_size, c, r) == cell_size * c

\* the side of the reference canvas
ReferenceGridSize(cell_size, c, r) == cell_size * PyMax(c, r)

\* the size of the sheet canvas
SheetWidth(c, s) == c * s

SheetHeight(r, s) == r * s

\* frames present?  ("if not frames: raise ValueError")
NoFrames(fr) == Len(fr) = 0

create_reference_grid(fr, c, r, res) ==
    IF NoFrames(fr) THEN Failed("ValueError", "reference", {})
    ELSE IF PyMax(c, r) = 0 THEN Failed("ZeroDivisionError", "reference", {})
    ELSE LET cell_size == PyFloorDiv(res, PyMax(c, r))
             grid_size == ReferenceGridSize(cell_size, c, r)
         IN  IF grid_size < 0 THEN Failed("ValueError", "reference", {})
             ELSE PasteLoop("reference", fr, c, r, cell_size, 0,
                      [status |-> "ok", mode |-> "reference",
                       img |-> ImageNew(grid_size, grid_size, "white"),
                       opened |-> {}, cell |-> cell_size])

compose_grid(fr, c, r, sprite_size) ==
    LET grid_width == SheetWidth(c, sprite_size)
        grid_height == SheetHeight(r, sprite_size)
    IN  IF grid_width < 0 \/ grid_height < 0 THEN Failed("ValueError", "sheet", {})
        ELSE PasteLoop("sheet", fr, c, r, sprite_size, 0,
                 [status |-> "ok", mode |-> "sheet",
                  img |-> ImageNew(grid_width, grid_height, "transparent"),
                  opened |-> {}, cell |-> sprite_size])

CropBox_width(row, col, cell_width, cell_height) ==
    [row |-> row, col |-> col,
     left |-> col * cell_width, upper |-> row * cell_width,
     right |-> col * cell_width + cell_width,
     lower |-> row * cell_width + cell_height]

\* the crop rectangle of the cell at (row, col)
CropBox(row, col, cell_width, cell_height) ==
    [row |-> row, col |-> col,
     left |-> col * cell_width, upper |-> row * cell_height,
     right |-> col * cell_width + cell_width,
     lower |-> row * cell_height + cell_height]

\* "for col in range(cols)" of one row
SliceRow(row, c, cell_width, cell_height) ==
    [k \in 1..Len(PyRange(c)) |-> CropBox(row, PyRange(c)[k], cell_width, cell_height)]

\* "for row in range(rows)", from the k-th row of the range on
RECURSIVE SliceRows(_, _, _, _, _)
SliceRows(k, c, r, cell_width, cell_height) ==
    IF k > Len(PyRange(r)) THEN <<>>
    ELSE SliceRow(PyRange(r)[k], c, cell_width, cell_height)
             \o SliceRows(k + 1, c, r, cell_width, cell_height)

EmptyCell(cell) == cell.right <= cell.left \/ cell.lower <= cell.upper

NoSlice(status, img) == [status |-> status, src |-> img, cells |-> <<>>,
                         cell_width |-> 0, cell_height |-> 0]

\* slice_grid on the image img; empty_save_ok says whether the PNG encoder accepts
\* a cell without pixels (cell.save)
slice_grid(img, c, r, empty_save_ok) ==
    IF c = 0 \/ r = 0 THEN NoSlice("ZeroDivisionError", img)
    ELSE LET cell_width == PyFloorDiv(img.w, c)
             cell_height == PyFloorDiv(img.h, r)
             cells == SliceRows(1, c, r, cell_width, cell_height)
         IN  IF ~empty_save_ok /\ \E k \in 1..Len(cells) : EmptyCell(cells[k])
             THEN NoSlice("SaveError", img)
             ELSE [status |-> "ok", src |-> img, cells |-> cells,
                   cell_width |-> cell_width, cell_height |-> cell_height]

\* pixel (u, v) of a cropped cell
CellPixel(img, cell, u, v) == PixelAt(img, cell.left + u, cell.upper + v)

----------------------------------------------------------------------------
(* The grid scenario: pick the arguments, call one operation, slice *)

NoGrid == [status |-> "none", mode |-> "none", img |-> NoImage, opened |-> {}, cell |-> 0]

NoSprite == [status |-> "none", value |-> 0]

NotSliced == NoSlice("none", NoImage)

FrameLists == {[i \in 1..n |-> sz] : n \in 0..MaxFrames, sz \in FrameSizes}

\* the frame/time mapper is not in use
TimeIdle ==
    /\ frame_num = 0
    /\ fps = 1
    /\ time_sec = FloatOfInt(0)
    /\ frame_out = 0
    /\ time_status = "ok"
    /\ tpc = "idle"

\* the grid utilities are not in use
GridIdle ==
    /\ cols = 1
    /\ rows = 1
    /\ resolution = 0
    /\ frames = <<>>
    /\ pc = "idle"
    /\ sprite = NoSprite
    /\ grid = NoGrid
    /\ sliced = NotSliced

NotTransformed ==
    [op |-> "none", status |-> "none", w |-> 0, h |-> 0, x |-> 0, y |-> 0, resolution |-> 0]

\* the image transforms are not in use
TransformIdle ==
    /\ image = [w |-> 1, h |-> 1]
    /\ transformed = NotTransformed

NoSelection == [frames |-> <<>>, grid_cols |-> 0, grid_rows |-> 0, resolution |-> 0]

\* the selector's combo box starts at "4x4"
DefaultGrid == <<4, 4>>

\* the frame selector is not in use
SelectorIdle ==
    /\ selector_frames = <<>>
    /\ grid_combo = DefaultGrid
    /\ extracted = 0
    /\ selection = NoSelection
    /\ reference = NoGrid

\* a file path: directory, file name (stem and suffix), and whether the stem
\* carries "_snapped"
NoPath == [dir |-> "none", name |-> "none", snapped |-> FALSE]

\* the generation panel as constructed
PanelIdle ==
    /\ runs = <<>>
    /\ worker = 0
    /\ output_path = NoPath
    /\ status_label = ""
    /\ btn_generate = TRUE
    /\ progress_bar = FALSE

\* filepath = None
NoFile == "None"

\* the video stream has no nb_frames key
NbAbsent == [reported |-> FALSE, value |-> 0]

\* duration is duration_num / 2^MaxShift seconds
NotProbed == [nb_frames |-> NbAbsent, duration_num |-> 0, r_frame_rate |-> 0]

\* self.metadata = None
NoMetadata == [loaded |-> FALSE, duration |-> FloatOfInt(0), fps |-> 0, frame_count |-> 0]

NoRequest == [by |-> "none", frame |-> 0, time_ms |-> 0]

\* the video player as constructed: no video, spinbox range (0, 0)
PlayerIdle ==
    /\ probed = NotProbed
    /\ metadata = NoMetadata
    /\ frame_spinbox = 0
    /\ position = 0
    /\ echo = FALSE
    /\ requested = NoRequest

\* no download worker exists
DownloadIdle ==
    /\ dl_pc = "idle"
    /\ yt_stream = 0
    /\ yt_percent = 0 - 1
    /\ yt_merged = FALSE
    /\ filepath = NoFile
    /\ progress_updates = <<>>
    /\ download_signals = <<>>

\* everything but the grid utilities is not in use
NonGridIdle == TimeIdle /\ TransformIdle /\ SelectorIdle /\ PanelIdle /\ DownloadIdle /\ PlayerIdle

\* everything but the frame/time mapper is not in use
NonTimeIdle == GridIdle /\ TransformIdle /\ SelectorIdle /\ PanelIdle /\ DownloadIdle /\ PlayerIdle

\* everything but the image transforms is not in use
NonTransformIdle == GridIdle /\ TimeIdle /\ SelectorIdle /\ PanelIdle /\ DownloadIdle /\ PlayerIdle

\* everything but the frame selector is not in use
NonSelectorIdle == GridIdle /\ TimeIdle /\ TransformIdle /\ PanelIdle /\ DownloadIdle /\ PlayerIdle

\* everything but the generation panel is not in use
NonPanelIdle == GridIdle /\ TimeIdle /\ TransformIdle /\ SelectorIdle /\ DownloadIdle /\ PlayerIdle

\* everything but the download worker is not in use
NonDownloadIdle ==
    GridIdle /\ TimeIdle /\ TransformIdle /\ SelectorIdle /\ PanelIdle /\ PlayerIdle

\* everything but the video player is not in use
NonPlayerIdle ==
    GridIdle /\ TimeIdle /\ TransformIdle /\ SelectorIdle /\ PanelIdle /\ DownloadIdle

InitGrid ==
    /\ cols \in ShapeRange
    /\ rows \in ShapeRange
    /\ resolution = 0
    /\ frames = <<>>
    /\ pc = "start"
    /\ sprite = NoSprite
    /\ grid = NoGrid
    /\ sliced = NotSliced
    /\ NonGridIdle

CalculateSpriteSize ==
    /\ pc = "start"
    /\ \E res \in 1..MaxRes :
          /\ resolution' = res
          /\ sprite' = calculate_sprite_size(res, cols, rows)
    /\ pc' = "sized"
    /\ UNCHANGED <<cols, rows, frames, grid, sliced>>
    /\ UNCHANGED nonGridVars

CreateReferenceGrid ==
    /\ pc = "start"
    /\ \E fr \in FrameLists, res \in 1..MaxRes :
          /\ frames' = fr
          /\ resolution' = res
          /\ grid' = create_reference_grid(fr, cols, rows, res)
    /\ pc' = "composed"
    /\ UNCHANGED <<cols, rows, sprite, sliced>>
    /\ UNCHANGED nonGridVars

ComposeGrid ==
    /\ pc = "start"
    /\ \E fr \in FrameLists, sprite_size \in 0..MaxSprite :
          /\ frames' = fr
          /\ grid' = compose_grid(fr, cols, rows, sprite_size)
    /\ pc' = "composed"
    /\ UNCHANGED <<cols, rows, resolution, sprite, sliced>>
    /\ UNCHANGED nonGridVars

\* the composite is saved and handed to slice_grid with the same shape
SliceComposite ==
    /\ pc = "composed"
    /\ grid.status = "ok"
    /\ \E empty_save_ok \in BOOLEAN :
          sliced' = slice_grid(grid.img, cols, rows, empty_save_ok)
    /\ pc' = "sliced"
    /\ UNCHANGED <<cols, rows, resolution, frames, sprite, grid>>
    /\ UNCHANGED nonGridVars

\* slice_grid on an image file of any size
SliceFile ==
    /\ pc = "start"
    /\ \E w \in ImageSides, h \in ImageSides, empty_save_ok \in BOOLEAN :
          sliced' = slice_grid(ImageNew(w, h, "file"), cols, rows, empty_save_ok)
    /\ pc' = "sliced"
    /\ UNCHANGED <<cols, rows, resolution, frames, sprite, grid>>
    /\ UNCHANGED nonGridVars

NextGrid == \/ CalculateSpriteSize
            \/ CreateReferenceGrid
            \/ ComposeGrid
            \/ SliceComposite
            \/ SliceFile

Spec == InitGrid /\ [][NextGrid]_vars

----------------------------------------------------------------------------
(* The frame/time scenario: a frame index is converted to a timestamp and back *)

InitTime ==
    /\ NonTimeIdle
    /\ frame_num \in 0..MaxFrameNum
    /\ fps \in 1..MaxFps
    /\ time_sec = FloatOfInt(0)
    /\ frame_out = 0
    /\ time_status = "ok"
    /\ tpc = "start"

FrameToTime ==
    /\ tpc = "start"
    /\ frame_to_time(frame_num, fps).status = "ok"
    /\ time_sec' = frame_to_time(frame_num, fps).value
    /\ time_status' = frame_to_time(frame_num, fps).status
    /\ tpc' = "timed"
    /\ UNCHANGED <<frame_num, fps, frame_out>>
    /\ UNCHANGED nonTimeVars

TimeToFrame ==
    /\ tpc = "timed"
    /\ frame_out' = time_to_frame(time_sec, fps)
    /\ tpc' = "framed"
    /\ UNCHANGED <<frame_num, fps, time_sec, time_status>>
    /\ UNCHANGED nonTimeVars

NextTime == FrameToTime \/ TimeToFrame

SpecTime == InitTime /\ [][NextTime]_vars

----------------------------------------------------------------------------
(* The mapper called on its own: one call of time_to_frame or of            *)
(* frame_to_time with any timestamp, frame index and rate, the invalid      *)
(* rates (zero and negative) included                                       *)

\* the float k / 2^j
Stamp(k, j) ==
    LET x == FloatOfInt(k)
    IN  IF x.m = <<>> THEN x ELSE RoundFloat(x.neg, x.m, x.e - j, FALSE)

Timestamps == {Stamp(k, j) : k \in (0 - MaxStamp)..MaxStamp, j \in 0..MaxShift}

Rates == (0 - MaxBadRate)..MaxFps

FrameNums == (0..MaxFrameNum) \cup {75}

InitCall ==
    /\ NonTimeIdle
    /\ frame_num = 0
    /\ fps = 1
    /\ time_sec = FloatOfInt(0)
    /\ frame_out = 0
    /\ time_status = "ok"
    /\ tpc = "ready"

\* frame = handler.time_to_frame(time_sec, fps)
CallTimeToFrame ==
    /\ tpc = "ready"
    /\ \E t \in Timestamps, r \in Rates :
          /\ time_sec' = t
          /\ fps' = r
          /\ frame_out' = time_to_frame(t, r)
    /\ time_status' = "ok"
    /\ tpc' = "time_to_frame"
    /\ UNCHANGED frame_num
    /\ UNCHANGED nonTimeVars

\* t = handler.frame_to_time(frame_num, fps)
CallFrameToTime ==
    /\ tpc = "ready"
    /\ \E f \in FrameNums, r \in Rates :
          /\ frame_num' = f
          /\ fps' = r
          /\ time_sec' = frame_to_time(f, r).value
          /\ time_status' = frame_to_time(f, r).status
    /\ tpc' = "frame_to_time"
    /\ UNCHANGED frame_out
    /\ UNCHANGED nonTimeVars

NextCall == CallTimeToFrame \/ CallFrameToTime

SpecCall == InitCall /\ [][NextCall]_vars

----------------------------------------------------------------------------
(* The image transforms, each called on an image of any size *)

TransformSides == (0..MaxSide) \cup {1080, 1920}

InitTransform ==
    /\ NonTransformIdle
    /\ image \in [w : TransformSides, h : TransformSides]
    /\ transformed = NotTransformed

CenterCropSquare ==
    /\ transformed.op = "none"
    /\ transformed' = ImageCrop(center_crop_square(image.w, image.h))
    /\ UNCHANGED image
    /\ UNCHANGED nonTransformVars

PadToSquare ==
    /\ transformed.op = "none"
    /\ transformed' = pad_to_square(image.w, image.h)
    /\ UNCHANGED image
    /\ UNCHANGED nonTransformVars

ResizeToResolution ==
    /\ transformed.op = "none"
    /\ \E res \in 1..MaxRes :
          transformed' = resize_to_resolution(image.w, image.h, res)
    /\ UNCHANGED image
    /\ UNCHANGED nonTransformVars

NextTransform == CenterCropSquare \/ PadToSquare \/ ResizeToResolution

SpecTransform == InitTransform /\ [][NextTransform]_vars

----------------------------------------------------------------------------
(* The frame selector (ui/frame_selector.py) and the template run it starts: *)
(* frames are added as the video player extracts them, removed by a click   *)
(* on their thumbnail, cleared, the grid size is changed, and Generate      *)
(* Template hands a copy of the list to the generation worker, which builds *)
(* the reference composite from it.                                         *)

\* items of the selector's combo box (of "2x2", "3x3", "4x4", "4x6", "5x5",
\* "6x5", "4x8", "8x4")
GridItems == {<<2, 2>>, <<4, 4>>, <<4, 6>>}

\* config.RESOLUTIONS
Resolutions == {1024, 2048, 4096}

total_slots == grid_combo[1] * grid_combo[2]

\* frames.pop(index), index 0-based
Pop(fr, index) == SubSeq(fr, 1, index) \o SubSeq(fr, index + 2, Len(fr))

ListAppend_front(fr, path) == <<path>> \o fr

\* frames.append(path)
ListAppend(fr, path) == Append(fr, path)

\* the thumbnails _rebuild_grid made: one for each frame that has a slot
Thumbnails == 0..(PyMin(Len(selector_frames), total_slots) - 1)

InitSelector ==
    /\ NonSelectorIdle
    /\ selector_frames = <<>>
    /\ grid_combo = DefaultGrid
    /\ extracted = 0
    /\ selection = NoSelection
    /\ reference = NoGrid

\* the video player extracts a frame and emits frame_extracted: add_frame
add_frame ==
    /\ extracted < MaxExtracted
    /\ extracted' = extracted + 1
    /\ selector_frames' = IF Len(selector_frames) < total_slots
                           THEN ListAppend(selector_frames, extracted + 1)
                           ELSE selector_frames
    /\ UNCHANGED <<grid_combo, selection, reference>>
    /\ UNCHANGED nonSelectorVars

_on_thumbnail_clicked ==
    /\ \E index \in Thumbnails :
          selector_frames' = IF 0 <= index /\ index < Len(selector_frames)
                             THEN Pop(selector_frames, index)
                             ELSE selector_frames
    /\ UNCHANGED <<grid_combo, extracted, selection, reference>>
    /\ UNCHANGED nonSelectorVars

clear_frames ==
    /\ selector_frames' = <<>>
    /\ UNCHANGED <<grid_combo, extracted, selection, reference>>
    /\ UNCHANGED nonSelectorVars

\* currentTextChanged: the list of frames is kept as it is
_on_grid_changed ==
    /\ \E item \in GridItems \ {grid_combo} : grid_combo' = item
    /\ UNCHANGED <<selector_frames, extracted, selection, reference>>
    /\ UNCHANGED nonSelectorVars

\* Generate Template: emits FrameSelection(list(self.frames), cols, rows) to
\* start_template_generation, which returns early (no generic character, the
\* name dialog cancelled, no API key) or creates the worker with the selection
_on_generate_clicked ==
    /\ Len(selector_frames) > 0
    /\ \E started \in BOOLEAN, res \in Resolutions :
          IF started
          THEN /\ selection' = [frames |-> selector_frames, grid_cols |-> grid_combo[1],
                                grid_rows |-> grid_combo[2], resolution |-> res]
               /\ reference' = NoGrid
          ELSE UNCHANGED <<selection, reference>>
    /\ UNCHANGED <<selector_frames, grid_combo, extracted>>
    /\ UNCHANGED nonSelectorVars

\* the worker thread: generate_template builds the reference composite from
\* source_frames; the frame files all have the size of the video
BuildReference ==
    /\ selection # NoSelection
    /\ reference = NoGrid
    /\ \E sz \in FrameSizes :
          reference' = create_reference_grid([i \in 1..Len(selection.frames) |-> sz],
                           selection.grid_cols, selection.grid_rows, selection.resolution)
    /\ UNCHANGED <<selector_frames, grid_combo, extracted, selection>>
    /\ UNCHANGED nonSelectorVars

NextSelector == \/ add_frame
                \/ _on_thumbnail_clicked
                \/ clear_frames
                \/ _on_grid_changed
                \/ _on_generate_clicked
                \/ BuildReference

SpecSelector == InitSelector /\ [][NextSelector]_vars

----------------------------------------------------------------------------
(* The generation panel (ui/generation_panel.py), its GenerationWorker       *)
(* threads running MuovitiGenAI.generate_template / apply_template           *)
(* (core/genai_client.py), and PixelSnapper.process (core/pixel_snapper.py). *)
(* A worker's signals are queued to the GUI thread: the worker emits, the    *)
(* connected handler runs later.                                             *)

\* names typed into the template-name dialog, stems of character files
Names == {"walk", "idle"}

\* config.TEMPLATES_DIR / f"{name}_{cols}x{rows}_{resolution}.png"
TemplatePath(name) == [dir |-> "templates", name |-> name, snapped |-> FALSE]

\* config.OUTPUT_DIR / f"{char_name}_{cols}x{rows}_{resolution}.png"
OutputPath(name) == [dir |-> "output", name |-> name, snapped |-> FALSE]

\* config.WORKSPACE / "temp" / "reference_grid.png"
reference_path == [dir |-> "temp", name |-> "reference_grid", snapped |-> FALSE]

\* output_path.with_stem(output_path.stem + "_snapped")
with_snapped(path) == [path EXCEPT !.snapped = TRUE]

\* what the pixel-snapper executable does when asked
Tools == {"ok", "missing", "exit"}

\* PixelSnapper.process(input_path, output_path): raises RuntimeError when the
\* tool is missing or exits non-zero, returns output_path otherwise
process(input_path, out, tool) ==
    IF tool = "missing" THEN [status |-> "RuntimeError", value |-> NoPath]
    ELSE IF tool = "exit" THEN [status |-> "RuntimeError", value |-> NoPath]
    ELSE [status |-> "ok", value |-> out]

ApplyPixelSnap_discard(result, checked, tool) ==
    IF ~checked THEN [output_path |-> result, snap |-> "off", status_label |-> "none"]
    ELSE [output_path |-> process(result, with_snapped(result), tool).value,
          snap |-> tool, status_label |-> "Pixel snap failed"]

\* the first part of both completion handlers: self.output_path = output_path,
\* then, if the box is checked, the try block around PixelSnapper.process
ApplyPixelSnap(result, checked, tool) ==
    IF ~checked THEN [output_path |-> result, snap |-> "off", status_label |-> "none"]
    ELSE IF process(result, with_snapped(result), tool).status = "ok"
    THEN [output_path |-> process(result, with_snapped(result), tool).value,
          snap |-> tool, status_label |-> "Applying pixel snapper..."]
    ELSE [output_path |-> result, snap |-> tool, status_label |-> "Pixel snap failed"]

TerminalSignal_finished(outcome) == "finished"

\* GenerationWorker.run: finished when the client call returned, error when
\* it raised
TerminalSignal(outcome) == IF outcome = "ok" THEN "finished" ELSE "error"

\* the runs whose worker thread has not emitted its terminal signal
InFlight == {k \in 1..Len(runs) : runs[k].state \in {"started", "prepared"}}

\* GenerationWorker(client, mode, ..., output_path) and worker.start()
NewRun(mode, out) ==
    [mode |-> mode, out |-> out, state |-> "started", overlaps |-> InFlight,
     written |-> {}, outcome |-> "none", result |-> NoPath, signals |-> <<>>,
     snap |-> "none", final |-> NoPath, emitted |-> NoPath, label |-> "none"]

InitPanel ==
    /\ NonPanelIdle
    /\ runs = <<>>
    /\ worker = 0
    /\ output_path = NoPath
    /\ status_label = ""
    /\ btn_generate = TRUE
    /\ progress_bar = FALSE

\* the frame selector's generate_template_requested signal
start_template_generation ==
    /\ Len(runs) < MaxRuns
    /\ \E way \in {"no generic character", "cancelled", "no API key", "started"},
          name \in Names :
          IF way = "cancelled" THEN UNCHANGED panelVars
          ELSE IF way \in {"no generic character", "no API key"}
          THEN /\ status_label' = "Error"
               /\ UNCHANGED <<runs, worker, output_path, btn_generate, progress_bar>>
          ELSE /\ runs' = Append(runs, NewRun("template", TemplatePath(name)))
               /\ worker' = Len(runs) + 1
               /\ btn_generate' = FALSE
               /\ progress_bar' = TRUE
               /\ status_label' = "Generating template..."
               /\ UNCHANGED output_path
    /\ UNCHANGED nonPanelVars

\* the panel's Generate button (clickable only while enabled)
_start_generation ==
    /\ btn_generate
    /\ Len(runs) < MaxRuns
    /\ \E way \in {"no character", "no template", "no API key", "started"},
          name \in Names :
          IF way = "no character"
          THEN /\ status_label' = "Select a character image first"
               /\ UNCHANGED <<runs, worker, output_path, btn_generate, progress_bar>>
          ELSE IF way = "no template"
          THEN /\ status_label' = "Select a template first"
               /\ UNCHANGED <<runs, worker, output_path, btn_generate, progress_bar>>
          ELSE IF way = "no API key"
          THEN /\ status_label' = "Error"
               /\ UNCHANGED <<runs, worker, output_path, btn_generate, progress_bar>>
          ELSE /\ runs' = Append(runs, NewRun("character", OutputPath(name)))
               /\ worker' = Len(runs) + 1
               /\ btn_generate' = FALSE
               /\ progress_bar' = TRUE
               /\ status_label' = "Starting..."
               /\ UNCHANGED output_path
    /\ UNCHANGED nonPanelVars

\* generate_template: the reference composite is saved to reference_path
WorkerPrepare(k) ==
    /\ runs[k].mode = "template"
    /\ runs[k].state = "started"
    /\ runs' = [runs EXCEPT ![k].state = "prepared",
                            ![k].written = @ \cup {reference_path}]
    /\ UNCHANGED <<worker, output_path, status_label, btn_generate, progress_bar>>
    /\ UNCHANGED nonPanelVars

\* generate_template / apply_template: the response image is saved to the
\* output path, the call returns it and run emits its terminal signal
WorkerSave(k) ==
    /\ \/ runs[k].mode = "template" /\ runs[k].state = "prepared"
       \/ runs[k].mode = "character" /\ runs[k].state = "started"
    /\ runs' = [runs EXCEPT ![k].state = "emitted",
                            ![k].written = @ \cup {runs[k].out},
                            ![k].outcome = "ok",
                            ![k].result = runs[k].out,
                            ![k].signals = Append(@, TerminalSignal("ok"))]
    /\ UNCHANGED <<worker, output_path, status_label, btn_generate, progress_bar>>
    /\ UNCHANGED nonPanelVars

\* the client call raises (a frame or image file cannot be opened, the API
\* call fails, the response holds no image) and run emits its terminal signal
WorkerRaise(k) ==
    /\ runs[k].state \in {"started", "prepared"}
    /\ runs' = [runs EXCEPT ![k].state = "emitted",
                            ![k].outcome = "raised",
                            ![k].signals = Append(@, TerminalSignal("raised"))]
    /\ UNCHANGED <<worker, output_path, status_label, btn_generate, progress_bar>>
    /\ UNCHANGED nonPanelVars

\* a progress message of run k reaches the GUI thread (before the terminal
\* signal of the run, which is queued behind it)
_on_progress(k) ==
    /\ runs[k].state \in {"started", "prepared", "emitted"}
    /\ status_label' = "progress"
    /\ UNCHANGED <<runs, worker, output_path, btn_generate, progress_bar>>
    /\ UNCHANGED nonPanelVars

\* both completion handlers; they differ in the final status text
Completed(k, text) ==
    /\ runs[k].state = "emitted"
    /\ runs[k].signals[1] = "finished"
    /\ \E checked \in BOOLEAN, tool \in Tools :
          LET snap == ApplyPixelSnap(runs[k].result, checked, tool)
          IN  /\ output_path' = snap.output_path
              /\ runs' = [runs EXCEPT ![k].state = "handled",
                                      ![k].snap = snap.snap,
                                      ![k].final = snap.output_path,
                                      ![k].emitted = snap.output_path,
                                      ![k].label = text]
    /\ progress_bar' = FALSE
    /\ btn_generate' = TRUE
    /\ status_label' = text
    /\ UNCHANGED worker
    /\ UNCHANGED nonPanelVars

_on_template_generation_finished(k) ==
    /\ runs[k].mode = "template"
    /\ Completed(k, "Template saved")

_on_generation_finished(k) ==
    /\ runs[k].mode = "character"
    /\ Completed(k, "Complete")

_on_generation_error(k) ==
    /\ runs[k].state = "emitted"
    /\ runs[k].signals[1] = "error"
    /\ runs' = [runs EXCEPT ![k].state = "handled", ![k].label = "Error"]
    /\ progress_bar' = FALSE
    /\ btn_generate' = TRUE
    /\ status_label' = "Error"
    /\ UNCHANGED <<worker, output_path>>
    /\ UNCHANGED nonPanelVars

NextPanel == \/ start_template_generation
             \/ _start_generation
             \/ \E k \in 1..Len(runs) : WorkerPrepare(k)
             \/ \E k \in 1..Len(runs) : WorkerSave(k)
             \/ \E k \in 1..Len(runs) : WorkerRaise(k)
             \/ \E k \in 1..Len(runs) : _on_progress(k)
             \/ \E k \in 1..Len(runs) : _on_template_generation_finished(k)
             \/ \E k \in 1..Len(runs) : _on_generation_finished(k)
             \/ \E k \in 1..Len(runs) : _on_generation_error(k)

SpecPanel == InitPanel /\ [][NextPanel]_vars

----------------------------------------------------------------------------
(* DownloadWorker.run (ui/video_player.py) reading the output of yt-dlp line *)
(* by line; VideoHandler.download_youtube (core/video.py) parses the same    *)
(* lines in the same way.  yt-dlp downloads one file ("best") or two (video, *)
(* then audio) which it merges; for each file it prints a Destination line   *)
(* and percentages rising to 100, or it finds the video already downloaded.  *)

Percents == {0, MidPercent, 100}

InitDownload ==
    /\ NonDownloadIdle
    /\ dl_pc = "start"
    /\ yt_stream = 0
    /\ yt_percent = 0 - 1
    /\ yt_merged = FALSE
    /\ filepath = NoFile
    /\ progress_updates = <<>>
    /\ download_signals = <<>>

\* subprocess.Popen(cmd, ...): raises when yt-dlp cannot be started
Popen ==
    /\ dl_pc = "start"
    /\ \E launched \in BOOLEAN :
          IF launched
          THEN /\ dl_pc' = "reading"
               /\ UNCHANGED download_signals
          ELSE /\ dl_pc' = "done"
               /\ download_signals' = Append(download_signals, "error")
    /\ UNCHANGED <<yt_stream, yt_percent, yt_merged, filepath, progress_updates>>
    /\ UNCHANGED nonDownloadVars

\* "[download] Destination: <file>": the next file begins
LineDestination ==
    /\ dl_pc = "reading"
    /\ ~yt_merged
    /\ yt_stream < MaxStreams
    /\ yt_stream = 0 \/ yt_percent = 100
    /\ filepath # "already"
    /\ yt_stream' = yt_stream + 1
    /\ yt_percent' = 0 - 1
    /\ filepath' = "stream"
    /\ UNCHANGED <<dl_pc, yt_merged, progress_updates, download_signals>>
    /\ UNCHANGED nonDownloadVars

\* "[download]  <percent>% of ...": progress.emit(percent, ...)
LineProgress ==
    /\ dl_pc = "reading"
    /\ yt_stream >= 1
    /\ ~yt_merged
    /\ \E percent \in Percents :
          /\ percent > yt_percent
          /\ yt_percent' = percent
          /\ progress_updates' = Append(progress_updates, percent)
    /\ UNCHANGED <<dl_pc, yt_stream, yt_merged, filepath, download_signals>>
    /\ UNCHANGED nonDownloadVars

\* '[Merger] Merging formats into "<file>"': progress.emit(99.0, ...)
LineMerger ==
    /\ dl_pc = "reading"
    /\ yt_stream = MaxStreams
    /\ yt_percent = 100
    /\ ~yt_merged
    /\ yt_merged' = TRUE
    /\ filepath' = "merged"
    /\ progress_updates' = Append(progress_updates, 99)
    /\ UNCHANGED <<dl_pc, yt_stream, yt_percent, download_signals>>
    /\ UNCHANGED nonDownloadVars

\* "[download] <file> has already been downloaded": progress.emit(100.0, ...)
LineAlready ==
    /\ dl_pc = "reading"
    /\ yt_stream = 0
    /\ filepath = NoFile
    /\ filepath' = "already"
    /\ progress_updates' = Append(progress_updates, 100)
    /\ UNCHANGED <<dl_pc, yt_stream, yt_percent, yt_merged, download_signals>>
    /\ UNCHANGED nonDownloadVars

\* yt-dlp's work is complete: it may exit with code 0
Downloaded ==
    \/ filepath = "already"
    \/ yt_merged
    \/ yt_stream = 1 /\ yt_percent = 100
    \/ yt_stream = 0 /\ filepath = NoFile

\* the output ends; process.wait() and the code after the loop
ProcessExit ==
    /\ dl_pc = "reading"
    /\ \E returncode \in {0, 1} :
          /\ returncode = 0 => Downloaded
          /\ IF returncode # 0 \/ filepath = NoFile
             THEN /\ download_signals' = Append(download_signals, "error")
                  /\ UNCHANGED progress_updates
             ELSE /\ progress_updates' = Append(progress_updates, 100)
                  /\ download_signals' = Append(download_signals, "finished")
    /\ dl_pc' = "done"
    /\ UNCHANGED <<yt_stream, yt_percent, yt_merged, filepath>>
    /\ UNCHANGED nonDownloadVars

NextDownload == \/ Popen
                \/ LineDestination
                \/ LineProgress
                \/ LineMerger
                \/ LineAlready
                \/ ProcessExit

SpecDownload == InitDownload /\ [][NextDownload]_vars

----------------------------------------------------------------------------------------------------------------------------------------
(* The two worker classes, GenerationWorker and DownloadWorker.  They share *)
(* no state: a generation worker belongs to the panel, the download worker  *)
(* to the video player.  Each is followed on its own: a behaviour is one of *)
(* the panel with its generation workers, or the run of one download.       *)

InitWorkers == InitPanel \/ InitDownload

NextWorkers == \/ dl_pc = "idle" /\ NextPanel
               \/ NextDownload

SpecWorkers == InitWorkers /\ [][NextWorkers]_vars

----------------------------------------------------------------------------
(* The video player (ui/video_player.py): load_video reads the metadata with *)
(* VideoHandler.get_metadata (core/video.py); frame steps and the frame      *)
(* spinbox seek the player, whose positionChanged signal sets the displayed  *)
(* frame.  Frame rates are ffprobe's "N/1".                                  *)

\* nb_frames of the video stream: a number, or the key is absent
NbFrames == {NbAbsent} \cup {[reported |-> TRUE, value |-> n] : n \in 0..MaxNbFrames}

\* float(data["format"]["duration"])
Duration(duration_num) == Stamp(duration_num, MaxShift)

\* int(video_stream.get("nb_frames", 0))
IntOfNbFrames(nb_frames) == IF nb_frames.reported THEN nb_frames.value ELSE 0

\* get_metadata: frame_count = int(nb_frames or 0), and int(duration * fps)
\* when that is 0
get_metadata(nb_frames, duration, rate) ==
    [loaded |-> TRUE, duration |-> duration, fps |-> rate,
     frame_count |-> IF IntOfNbFrames(nb_frames) # 0 THEN IntOfNbFrames(nb_frames)
                     ELSE PyInt(FloatMul(duration, rate))]

\* QSpinBox.setRange(0, frame_count - 1): with a maximum below the minimum the
\* minimum is the only legal value
SpinMax == PyMax(0, metadata.frame_count - 1)

\* QSpinBox.setValue keeps the value inside the range
SpinValue(v) == PyMax(0, PyMin(v, SpinMax))

ClampFrame_unbounded(v, frame_count) == PyMax(0, v)

\* max(0, min(current_frame + count, frame_count - 1))
ClampFrame(v, frame_count) == PyMax(0, PyMin(v, frame_count - 1))

\* int(frame_to_time(frame, fps) * 1000)
TimeMs(frame, rate) == PyInt(FloatMul(frame_to_time(frame, rate).value, 1000))

\* time_to_frame(position / 1000.0, fps)
FrameAt(pos, rate) == time_to_frame(FloatDiv(FloatOfInt(pos), 1000), rate)

InitPlayer ==
    /\ NonPlayerIdle
    /\ probed = NotProbed
    /\ metadata = NoMetadata
    /\ frame_spinbox = 0
    /\ position = 0
    /\ echo = FALSE
    /\ requested = NoRequest

\* load_video: get_metadata raises when ffprobe shows no video stream;
\* otherwise the metadata is stored and the spinbox range set
load_video ==
    /\ ~metadata.loaded
    /\ \E video_stream \in BOOLEAN, nb_frames \in NbFrames,
          duration_num \in 0..MaxDuration, rate \in 1..MaxFps :
          IF video_stream
          THEN /\ probed' = [nb_frames |-> nb_frames, duration_num |-> duration_num,
                             r_frame_rate |-> rate]
               /\ metadata' = get_metadata(nb_frames, Duration(duration_num), rate)
          ELSE UNCHANGED <<probed, metadata>>
    /\ UNCHANGED <<frame_spinbox, position, echo, requested>>
    /\ UNCHANGED nonPlayerVars

\* player.setPosition(time_ms): positionChanged follows when the position changes
Seek(by, frame, time_ms) ==
    /\ requested' = [by |-> by, frame |-> frame, time_ms |-> time_ms]
    /\ position' = time_ms
    /\ echo' = (echo \/ time_ms # position)

\* the previous / next buttons and the arrow keys
_step_frames ==
    /\ metadata.loaded
    /\ \E count \in {1, 0 - 1, 10, 0 - 10} :
          LET new_frame == ClampFrame(frame_spinbox + count, metadata.frame_count)
          IN  Seek("step", new_frame, TimeMs(new_frame, metadata.fps))
    /\ UNCHANGED <<probed, metadata, frame_spinbox>>
    /\ UNCHANGED nonPlayerVars

\* the user changes the spinbox: valueChanged(frame)
_on_frame_changed ==
    /\ metadata.loaded
    /\ \E frame \in (0..SpinMax) \ {frame_spinbox} :
          /\ frame_spinbox' = frame
          /\ Seek("spinbox", frame, TimeMs(frame, metadata.fps))
    /\ UNCHANGED <<probed, metadata>>
    /\ UNCHANGED nonPlayerVars

\* positionChanged(position) reaches the widget
_on_position_changed ==
    /\ echo
    /\ echo' = FALSE
    /\ frame_spinbox' = IF metadata.loaded
                         THEN SpinValue(FrameAt(position, metadata.fps))
                         ELSE frame_spinbox
    /\ UNCHANGED <<probed, metadata, position, requested>>
    /\ UNCHANGED nonPlayerVars

NextPlayer == \/ load_video
              \/ _step_frames
              \/ _on_frame_changed
              \/ _on_position_changed

SpecPlayer == InitPlayer /\ [][NextPlayer]_vars

----------------------------------------------------------------------------
(* Properties of the grid utilities *)

ValidShape == cols >= 1 /\ rows >= 1

NumCells == cols * rows

\* the rectangle the spec assigns to cell index i (0-based) for square cells of side s
SpecRect(i, s) ==
    [left |-> (i % cols) * s, upper |-> (i \div cols) * s,
     right |-> (i % cols) * s + s, lower |-> (i \div cols) * s + s]

\* the rectangle covered by the k-th paste
PasteRect(p) == [left |-> p.x, upper |-> p.y, right |-> p.x + p.s, lower |-> p.y + p.s]

RectOf(cell) == [left |-> cell.left, upper |-> cell.upper,
                 right |-> cell.right, lower |-> cell.lower]

SheetRoundTripCase ==
    /\ pc = "sliced"
    /\ grid.status = "ok"
    /\ grid.mode = "sheet"
    /\ ValidShape
    /\ grid.cell >= 1
    /\ Len(frames) = NumCells

\* C1: sheet-mode round trip.  Slicing the image compose_grid returned for exactly
\* cols*rows frames, with the same shape, returns cols*rows cells, and the i-th cell
\* is the crop of exactly the rectangle into which frame i was pasted: same
\* rectangle, and every pixel of the cell is the pixel of frame i at that place.
C1_SheetRoundTrip ==
    SheetRoundTripCase =>
        /\ sliced.status = "ok"
        /\ Len(sliced.cells) = NumCells
        /\ Len(grid.img.pastes) = NumCells
        /\ \A i \in 1..NumCells :
              /\ grid.img.pastes[i].src = i
              /\ RectOf(sliced.cells[i]) = PasteRect(grid.img.pastes[i])
              /\ \A u \in 0..(grid.cell - 1), v \in 0..(grid.cell - 1) :
                    CellPixel(sliced.src, sliced.cells[i], u, v) = <<i, u, v>>

C1_Witness ==
    /\ SheetRoundTripCase
    /\ cols = 3 /\ rows = 2 /\ grid.cell = 2
    /\ sliced.status = "ok"
    /\ CellPixel(sliced.src, sliced.cells[6], 1, 1) = <<6, 1, 1>>

\* C2: for cols, rows >= 1 and resolution > 0 the cell size c returned by
\* calculate_sprite_size satisfies c * max(cols, rows) <= resolution
\* < (c + 1) * max(cols, rows).
C2_SpriteSizeBounds ==
    (pc = "sized" /\ ValidShape) =>
        /\ sprite.status = "ok"
        /\ sprite.value * PyMax(cols, rows) <= resolution
        /\ resolution < (sprite.value + 1) * PyMax(cols, rows)
        /\ resolution - sprite.value * PyMax(cols, rows) <= PyMax(cols, rows) - 1

C2_Witness ==
    /\ pc = "sized" /\ cols = 2 /\ rows = 3 /\ resolution = 7
    /\ sprite.status = "ok" /\ sprite.value = 2

\* C3: index -> (row, col) = (i div cols, i mod cols) and (row, col) -> row*cols + col
\* are inverse for 0 <= i < cols*rows, with row and col in range; and the nested
\* row/col loop of slice_grid lists the cells in exactly that index order.
C3_IndexCellInverse ==
    ValidShape =>
        /\ \A i \in 0..(NumCells - 1) :
              /\ 0 <= CellRow(i, cols) /\ CellRow(i, cols) < rows
              /\ 0 <= CellCol(i, cols) /\ CellCol(i, cols) < cols
              /\ CellRow(i, cols) * cols + CellCol(i, cols) = i
        /\ (pc = "sliced" /\ sliced.status = "ok") =>
              /\ Len(sliced.cells) = NumCells
              /\ \A i \in 0..(NumCells - 1) :
                    /\ sliced.cells[i + 1].row = CellRow(i, cols)
                    /\ sliced.cells[i + 1].col = CellCol(i, cols)
                    /\ sliced.cells[i + 1].row * cols + sliced.cells[i + 1].col = i

C3_Witness ==
    /\ pc = "sliced" /\ sliced.status = "ok"
    /\ cols = 3 /\ rows = 2
    /\ sliced.cells[5].row = 1 /\ sliced.cells[5].col = 1

ComposedCase == pc = "composed" /\ grid.status = "ok" /\ ValidShape /\ Len(frames) >= 1

\* C4 as stated: the composite returned by either compose function is a square
\* canvas of side cellSize * max(cols, rows).
C4_SquareCanvasBothModes ==
    ComposedCase =>
        /\ grid.img.w = grid.cell * PyMax(cols, rows)
        /\ grid.img.h = grid.cell * PyMax(cols, rows)

\* C4 amended: create_reference_grid returns a square canvas of side
\* cellSize * max(cols, rows); compose_grid returns a canvas cols*cellSize wide and
\* rows*cellSize high, which is that square only when cols = rows.
C4_CanvasSize ==
    ComposedCase =>
        /\ grid.mode = "reference" =>
              /\ grid.img.w = grid.cell * PyMax(cols, rows)
              /\ grid.img.h = grid.cell * PyMax(cols, rows)
              /\ grid.cell = resolution \div PyMax(cols, rows)
        /\ grid.mode = "sheet" =>
              /\ grid.img.w = cols * grid.cell
              /\ grid.img.h = rows * grid.cell
              /\ (grid.img.w = grid.img.h /\ grid.cell >= 1) => cols = rows

C4_Witness ==
    /\ ComposedCase
    /\ grid.mode = "sheet" /\ cols = 3 /\ rows = 2 /\ grid.cell = 2
    /\ grid.img.w = 6 /\ grid.img.h = 4

BackgroundOf(mode) == IF mode = "reference" THEN "white" ELSE "transparent"

FewerFramesCase ==
    /\ ComposedCase
    /\ 1 <= Len(frames)
    /\ Len(frames) < NumCells

\* C5: with k frames, 1 <= k < cols*rows, every pixel of every cell of index
\* k..cols*rows-1 lies on the canvas and is background (white in reference mode,
\* transparent in sheet mode): no paste covers it.
C5_RemainingCellsBackground ==
    FewerFramesCase =>
        /\ grid.img.bg = BackgroundOf(grid.mode)
        /\ \A i \in Len(frames)..(NumCells - 1) :
              \A u \in 0..(grid.cell - 1), v \in 0..(grid.cell - 1) :
                 LET x == SpecRect(i, grid.cell).left + u
                     y == SpecRect(i, grid.cell).upper + v
                 IN  /\ x < grid.img.w /\ y < grid.img.h
                     /\ PixelAt(grid.img, x, y) = Background
                     /\ \A k \in 1..Len(grid.img.pastes) : ~Covers(grid.img.pastes[k], x, y)

C5_Witness ==
    /\ FewerFramesCase
    /\ cols = 2 /\ rows = 2 /\ Len(frames) = 3 /\ grid.cell = 2
    /\ grid.mode = "reference"
    /\ PixelAt(grid.img, 3, 3) = Background
    /\ PixelAt(grid.img, 1, 3) = <<3, 1, 1>>

\* the call the excess-frames claim compares with: the same call on the first
\* cols*rows frames
TruncatedCall ==
    IF grid.mode = "reference"
    THEN create_reference_grid(SubSeq(frames, 1, NumCells), cols, rows, resolution)
    ELSE compose_grid(SubSeq(frames, 1, NumCells), cols, rows, grid.cell)

SameImage(a, b) ==
    /\ a.w = b.w /\ a.h = b.h /\ a.bg = b.bg
    /\ \A x \in 0..(a.w - 1), y \in 0..(a.h - 1) : PixelAt(a, x, y) = PixelAt(b, x, y)

ExcessFramesCase ==
    /\ pc = "composed"
    /\ grid.status = "ok"
    /\ ValidShape
    /\ Len(frames) > NumCells

\* C6: with more than cols*rows frames the excess is ignored without error: the
\* canvas is the one returned for the first cols*rows frames alone, and no frame of
\* index >= cols*rows is opened or pasted.  (A call whose cell size is below 1
\* fails in resize whatever the number of frames, so it is no case of the claim.)
C6_ExcessIgnored ==
    /\ ExcessFramesCase =>
          /\ TruncatedCall.status = "ok"
          /\ SameImage(grid.img, TruncatedCall.img)
          /\ grid.opened = 0..(NumCells - 1)
          /\ \A k \in 1..Len(grid.img.pastes) : grid.img.pastes[k].src <= NumCells
    /\ (pc = "composed" /\ ValidShape /\ Len(frames) > NumCells
            /\ grid.mode = "sheet" /\ TruncatedCall.status = "ok") => grid.status = "ok"
    /\ (pc = "composed" /\ ValidShape /\ Len(frames) > NumCells
            /\ grid.mode = "reference" /\ resolution >= PyMax(cols, rows)) => grid.status = "ok"

C6_Witness ==
    /\ ExcessFramesCase
    /\ cols = 2 /\ rows = 1 /\ Len(frames) = 4 /\ grid.cell = 2
    /\ grid.opened = {0, 1}

SlicedCase == pc = "sliced" /\ ValidShape /\ sliced.status = "ok"

Disjoint(a, b) ==
    \/ a.right <= b.left \/ b.right <= a.left
    \/ a.lower <= b.upper \/ b.lower <= a.upper

\* C7: slice_grid on a width x height image returns cols*rows cells in row-major
\* order; cell i has the crop rectangle (col*cw, row*ch, (col+1)*cw, (row+1)*ch) with
\* cw = width div cols, ch = height div rows; the rectangles lie inside the image,
\* are pairwise disjoint, and every cell is cw x ch (so a 1024x1024 image sliced
\* 2x2 gives four 512x512 cells).  A slice into cells of at least one pixel succeeds.
C7_SliceRectangles ==
    /\ SlicedCase =>
          LET cw == sliced.src.w \div cols
              ch == sliced.src.h \div rows
          IN  /\ Len(sliced.cells) = NumCells
              /\ \A i \in 0..(NumCells - 1) :
                    LET cell == sliced.cells[i + 1]
                        row == i \div cols
                        col == i % cols
                    IN  /\ cell.row = row /\ cell.col = col
                        /\ RectOf(cell) = [left |-> col * cw, upper |-> row * ch,
                                           right |-> (col + 1) * cw,
                                           lower |-> (row + 1) * ch]
                        /\ 0 <= cell.left /\ cell.right <= sliced.src.w
                        /\ 0 <= cell.upper /\ cell.lower <= sliced.src.h
                        /\ cell.right - cell.left = cw
                        /\ cell.lower - cell.upper = ch
              /\ \A i, j \in 1..NumCells :
                    i # j => Disjoint(sliced.cells[i], sliced.cells[j])
              /\ (sliced.src.w = 1024 /\ sliced.src.h = 1024 /\ cols = 2 /\ rows = 2) =>
                    \A i \in 1..4 : /\ sliced.cells[i].right - sliced.cells[i].left = 512
                                    /\ sliced.cells[i].lower - sliced.cells[i].upper = 512
    /\ (pc = "sliced" /\ ValidShape /\ sliced.src.w >= cols /\ sliced.src.h >= rows) =>
          sliced.status = "ok"

C7_Witness ==
    /\ SlicedCase
    /\ cols = 2 /\ rows = 2 /\ sliced.src.w = 1024 /\ sliced.src.h = 1024
    /\ RectOf(sliced.cells[4]) = [left |-> 512, upper |-> 512, right |-> 1024, lower |-> 1024]

\* C8 as stated: compose with an empty frame list fails with an empty-input error
\* and returns no composite, in reference mode and in sheet mode.
C8_EmptyInputFails ==
    (pc = "composed" /\ ValidShape /\ Len(frames) = 0) => grid.status = "ValueError"

\* C9 as stated: with cols < 1 or rows < 1 every geometry operation fails; none
\* returns a cell size, an image or a list of cells.
C9_InvalidShapeFails ==
    ~ValidShape =>
        /\ pc = "sized" => sprite.status \notin {"ok"}
        /\ pc = "composed" => grid.status \notin {"ok"}
        /\ pc = "sliced" => sliced.status \notin {"ok"}

----------------------------------------------------------------------------
(* Properties of the frame/time mapper *)

\* C10 as stated: time_to_frame(frame_to_time(f, fps), fps) = f for every frame
\* index f >= 0 and every fps > 0.
C10_FrameTimeRoundTrip ==
    tpc = "framed" => frame_out = frame_num

\* floor(x * rate) in exact arithmetic, for a float x of short mantissa
FloorOfProduct(x, rate) ==
    LET p == (IF x.neg THEN 0 - IntOf(x.m) ELSE IntOf(x.m)) * rate
    IN  IF x.e >= 0 THEN p * Pow2(x.e) ELSE PyFloorDiv(p, Pow2(0 - x.e))

\* floor(x * 2^k) for a float x >= 0
ScaledFloor(x, k) == PyInt([neg |-> FALSE, m |-> x.m, e |-> x.e + k])

\* how finely a timestamp is compared with the quotient frame / rate
QuotientBits == 10

\* x is the float of frame / rate, rate > 0: the quotient itself where a float
\* of short mantissa holds it, and on the same side of every multiple of
\* 2^-QuotientBits as the quotient elsewhere
IsQuotient(x, frame, rate) ==
    /\ ~x.neg
    /\ ScaledFloor(x, QuotientBits) = PyFloorDiv(frame * Pow2(QuotientBits), rate)
    /\ (frame * Pow2(QuotientBits)) % rate = 0 =>
           x = Stamp((frame * Pow2(QuotientBits)) \div rate, QuotientBits)

\* C11 as stated: time_to_frame(timestamp, fps) = floor(timestamp * fps) for every
\* timestamp, the negative ones included, and fps > 0; frame_to_time(f, fps) =
\* f / fps; fps = 30 and timestamp = 2.5 give frame 75, frame_to_time(75, 30) = 2.5.
C11_FloorOfProduct ==
    /\ (tpc = "time_to_frame" /\ fps > 0) =>
           /\ frame_out = FloorOfProduct(time_sec, fps)
           /\ (fps = 30 /\ time_sec = Stamp(5, 1)) => frame_out = 75
    /\ (tpc = "frame_to_time" /\ fps > 0) =>
           /\ time_status = "ok"
           /\ IsQuotient(time_sec, frame_num, fps)
           /\ (fps = 30 /\ frame_num = 75) => time_sec = Stamp(5, 1)

\* C12 as stated: with fps <= 0 both conversions fail with an error; neither
\* returns a frame index or a timestamp.
C12_InvalidRateFails ==
    (tpc \in {"time_to_frame", "frame_to_time"} /\ fps <= 0) => time_status # "ok"

----------------------------------------------------------------------------
(* Properties of the image transforms *)

CropCase ==
    /\ transformed.op = "center_crop_square"
    /\ image.w >= 1 /\ image.h >= 1

\* C13: center_crop_square on a width x height image (both >= 1) returns the
\* square of side s = min(width, height) at offset ((width - s) div 2,
\* (height - s) div 2); the crop rectangle lies inside the image whether the
\* difference of the dimensions is even or odd, and a 1920x1080 image gives
\* 1080x1080 at horizontal offset 420, vertical offset 0.
C13_CenterCrop ==
    CropCase =>
        LET s == IF image.w <= image.h THEN image.w ELSE image.h
        IN  /\ transformed.status = "ok"
            /\ transformed.w = s /\ transformed.h = s
            /\ transformed.x = (image.w - s) \div 2
            /\ transformed.y = (image.h - s) \div 2
            /\ 0 <= transformed.x /\ transformed.x + transformed.w <= image.w
            /\ 0 <= transformed.y /\ transformed.y + transformed.h <= image.h
            /\ (image.w = 1920 /\ image.h = 1080) =>
                   /\ transformed.w = 1080 /\ transformed.h = 1080
                   /\ transformed.x = 420 /\ transformed.y = 0

C13_Witness ==
    /\ CropCase
    /\ image = [w |-> 1920, h |-> 1080]
    /\ transformed.x = 420 /\ transformed.w = 1080

\* C14 as stated: center_crop_square, pad_to_square and resize_to_resolution fail
\* with an error when the width or the height of the input is zero; none
\* returns an image.
C14_ZeroSizeFails ==
    (transformed.op # "none" /\ (image.w = 0 \/ image.h = 0)) =>
        transformed.status # "ok"

----------------------------------------------------------------------------
(* Properties of the frame selector and the reference composite *)

\* frames are named by their extraction number: a list keeps the order in which
\* its frames were added when the numbers increase along it
InAddedOrder(fr) == \A i, j \in 1..Len(fr) : i < j => fr[i] < fr[j]

ReferenceBuilt == selection # NoSelection /\ reference.status = "ok"

\* the frame at position i (0-based) of the selection fills the cell at (row, col)
\* of the reference composite
PlacedAt(i, row, col) ==
    LET x == col * reference.cell
        y == row * reference.cell
    IN  /\ x + reference.cell <= reference.img.w
        /\ y + reference.cell <= reference.img.h
        /\ \A u, v \in {0, reference.cell - 1} :
               PixelAt(reference.img, x + u, y + v) = <<i + 1, u, v>>

----------------------------------------------------------------------------
(* Properties of the generation panel *)

Run == 1..Len(runs)

\* run k was completed: its finished signal was handled
CompletedRun(k) == runs[k].state = "handled" /\ runs[k].signals = <<"finished">>

SnapFailed(k) == CompletedRun(k) /\ runs[k].snap \in {"missing", "exit"}

\* C16: when PixelSnapper fails (tool missing or non-zero exit) in a completion
\* handler, the panel's output path is still the path the generation returned
\* and that path is the one generation_complete emits; the output path is the
\* snapped path only when quantization succeeded.
C16_UnquantizedKept ==
    /\ \A k \in Run :
          /\ SnapFailed(k) =>
                 /\ runs[k].result # NoPath
                 /\ runs[k].final = runs[k].result
                 /\ runs[k].emitted = runs[k].result
          /\ CompletedRun(k) =>
                 /\ runs[k].emitted = runs[k].final
                 /\ runs[k].final \in {runs[k].result, with_snapped(runs[k].result)}
                 /\ runs[k].final # runs[k].result => runs[k].snap = "ok"
    /\ output_path # NoPath => \E k \in Run : CompletedRun(k) /\ output_path = runs[k].final
    /\ (Len(runs) = 1 /\ CompletedRun(1)) => output_path = runs[1].final

C16_Witness ==
    \E k \in Run :
        /\ SnapFailed(k)
        /\ runs[k].snap = "exit"
        /\ runs[k].mode = "character"
        /\ output_path = runs[k].result
        /\ output_path = OutputPath("walk")

\* C17 as stated: when a completion handler returns after a PixelSnapper
\* failure, the status it leaves reports the pixel-snap failure and not an
\* unqualified success.
C17_SnapFailureReported ==
    \A k \in Run : SnapFailed(k) => runs[k].label = "Pixel snap failed"

\* C18: PixelSnapper.process is called only after a successful generation:
\* every call is made for a run that emitted finished before, after its client
\* call returned a result, and no call is made for a run that is still in
\* flight or that ended with the error signal.
C18_SnapOnlyAfterFinished ==
    /\ [](\A k \in Run :
             /\ runs[k].snap \in Tools =>
                    /\ runs[k].signals = <<"finished">>
                    /\ runs[k].outcome = "ok"
                    /\ runs[k].result = runs[k].out
             /\ (runs[k].signals # <<"finished">> \/ runs[k].outcome # "ok") =>
                    runs[k].snap = "none")
    /\ [][\A k \in Run :
               (Len(runs') >= k /\ runs'[k].snap # runs[k].snap) =>
                   /\ runs[k].state = "emitted"
                   /\ runs[k].signals = <<"finished">>]_vars

C18_Witness ==
    /\ Len(runs) = 2
    /\ runs[1].signals = <<"error">> /\ runs[1].state = "handled" /\ runs[1].snap = "none"
    /\ CompletedRun(2) /\ runs[2].snap = "ok" /\ runs[2].final = with_snapped(runs[2].out)

\* C19 as stated: two concurrent runs never write the same file path; every
\* file a run writes (the temporary reference composite, the generated result)
\* goes to a path of that run alone.
C19_WritesDisjoint ==
    \A i, j \in Run :
        i \in runs[j].overlaps => runs[i].written \cap runs[j].written = {}

----------------------------------------------------------------------------
(* Properties of the download worker *)

\* C20 as stated: whatever lines yt-dlp prints (a video and an audio download
\* followed by a merge included), the percentages delivered as progress updates
\* never decrease and stay within 0..100, and the run ends with a 100% update or
\* with the error signal.
C20_ProgressMonotonic ==
    /\ \A i, j \in 1..Len(progress_updates) :
          i < j => progress_updates[i] <= progress_updates[j]
    /\ \A i \in 1..Len(progress_updates) :
          0 <= progress_updates[i] /\ progress_updates[i] <= 100
    /\ dl_pc = "done" =>
          \/ download_signals = <<"error">>
          \/ /\ download_signals = <<"finished">>
             /\ progress_updates # <<>>
             /\ progress_updates[Len(progress_updates)] = 100

----------------------------------------------------------------------------
(* The video player *)

\* count is an integer nearest to duration * fps, the duration being
\* duration_num / 2^MaxShift seconds
NearestCount(count, duration_num, rate) ==
    2 * Abs(count * Pow2(MaxShift) - duration_num * rate) <= Pow2(MaxShift)

\* C21: get_metadata uses the frame count the source reports unchanged when one
\* is reported; only when none is reported is it computed, and then as
\* round(duration * fps), the nearest integer and not the truncation.
C21_FrameCountAuthoritative ==
    metadata.loaded =>
        IF probed.nb_frames.reported
        THEN metadata.frame_count = probed.nb_frames.value
        ELSE NearestCount(metadata.frame_count, probed.duration_num,
                          probed.r_frame_rate)

\* C25: when a step or the spinbox requests frame f, the player is sought to
\* int(frame_to_time(f, fps) * 1000) and the position has come back through
\* _on_position_changed, the displayed frame is f, for every positive integer
\* fps.
C25_DisplayedIsRequested ==
    (metadata.loaded /\ requested.by # "none" /\ ~echo) =>
        frame_spinbox = requested.frame

\* C29 as stated: the frame _step_frames requests is within [0, frame_count - 1]
\* and the position passed to the player is not negative, a frame count of 0
\* or 1 included.
C29_StepWithinFrames ==
    requested.by = "step" =>
        /\ 0 <= requested.frame
        /\ requested.frame <= metadata.frame_count - 1
        /\ requested.time_ms >= 0

\* C29: the frame _step_frames requests is within [0, max(0, frame_count - 1)],
\* that is within [0, frame_count - 1] whenever the video has a frame and frame 0
\* when it has none, and the position passed to the player is not negative.
C29_StepClamped ==
    requested.by = "step" =>
        /\ 0 <= requested.frame
        /\ requested.frame <= PyMax(0, metadata.frame_count - 1)
        /\ requested.time_ms >= 0

\* a step in a video with no frame, and one that ran into the last frame
C29_Witness ==
    /\ requested.by = "step"
    /\ \/ metadata.frame_count = 0
       \/ /\ metadata.frame_count > 1
          /\ requested.frame = metadata.frame_count - 1
          /\ frame_spinbox = requested.frame

----------------------------------------------------------------------------
(* More properties of the image transforms *)

PadCase == transformed.op = "pad_to_square" /\ image.w >= 1 /\ image.h >= 1

\* the canvas is small enough to look at every pixel
SmallCanvas == transformed.w <= MaxSide /\ transformed.h <= MaxSide

PadRectInside ==
    LET s == IF image.w >= image.h THEN image.w ELSE image.h
    IN  /\ transformed.status = "ok"
        /\ transformed.w = s /\ transformed.h = s
        /\ transformed.x = (s - image.w) \div 2
        /\ transformed.y = (s - image.h) \div 2
        /\ 0 <= transformed.x /\ transformed.x + image.w <= s
        /\ 0 <= transformed.y /\ transformed.y + image.h <= s

PadPixels ==
    \A px \in 0..(transformed.w - 1), py \in 0..(transformed.h - 1) :
        LET inside == /\ (transformed.w - image.w) \div 2 <= px
                      /\ px < (transformed.w - image.w) \div 2 + image.w
                      /\ (transformed.h - image.h) \div 2 <= py
                      /\ py < (transformed.h - image.h) \div 2 + image.h
        IN  IF inside
            THEN PaddedPixel(transformed, image, px, py)[1] = "image"
            ELSE PaddedPixel(transformed, image, px, py) = <<"fill_color", 0, 0>>

\* C22: pad_to_square on a width x height image returns a new square canvas of
\* side s = max(width, height) with the original pasted at ((s - width) div 2,
\* (s - height) div 2); the pasted rectangle lies inside the canvas, every
\* pixel outside it has the fill colour, and the input image is not modified.
C22_PadToSquare ==
    /\ [](PadCase => (PadRectInside /\ (SmallCanvas => PadPixels)))
    /\ [][PadToSquare => image' = image]_vars

\* an odd difference on a small image
C22_Witness ==
    /\ PadCase
    /\ image = [w |-> 1, h |-> MaxSide]
    /\ transformed.x = (MaxSide - 1) \div 2
    /\ PaddedPixel(transformed, image, 0, 0) = <<"fill_color", 0, 0>>

ResizeCase == transformed.op = "resize_to_resolution" /\ image.w >= 1 /\ image.h >= 1

\* C30: resize_to_resolution on an image of width, height >= 1 with a
\* resolution >= 1 gives target dimensions that are both at least 1 and at most
\* the resolution, the target of the longer side being the resolution.
C30_ResizeFits ==
    ResizeCase =>
        /\ transformed.status = "ok"
        /\ 1 <= transformed.w /\ transformed.w <= transformed.resolution
        /\ 1 <= transformed.h /\ transformed.h <= transformed.resolution
        /\ IF image.w >= image.h
           THEN transformed.w = transformed.resolution
           ELSE transformed.h = transformed.resolution

----------------------------------------------------------------------------
(* More properties of the grid compositor and slicer *)

PlacedCase == pc \in {"composed", "sliced"} /\ ValidShape /\ grid.status = "ok"

PlacedCount == IF Len(frames) <= NumCells THEN Len(frames) ELSE NumCells

\* C23: in both compose functions, for every i in [0, min(len(frames),
\* cols*rows)), frame i is pasted at (col*cellSize, row*cellSize) with (row, col)
\* = (i div cols, i mod cols); the pasted cellSize x cellSize rectangles lie
\* inside the canvas and are pairwise disjoint, so that no placed frame is
\* overwritten by a later paste.
C23_Placement ==
    PlacedCase =>
        /\ Len(grid.img.pastes) = PlacedCount
        /\ \A i \in 0..(PlacedCount - 1) :
              LET p == grid.img.pastes[i + 1]
              IN  /\ p.src = i + 1
                  /\ p.s = grid.cell
                  /\ p.x = (i % cols) * grid.cell
                  /\ p.y = (i \div cols) * grid.cell
                  /\ 0 <= p.x /\ p.x + p.s <= grid.img.w
                  /\ 0 <= p.y /\ p.y + p.s <= grid.img.h
                  /\ PixelAt(grid.img, p.x, p.y) = <<i + 1, 0, 0>>
                  /\ PixelAt(grid.img, p.x + p.s - 1, p.y + p.s - 1)
                         = <<i + 1, p.s - 1, p.s - 1>>
        /\ \A i, j \in 1..PlacedCount :
              i # j => Disjoint(PasteRect(grid.img.pastes[i]),
                                PasteRect(grid.img.pastes[j]))

\* a sheet and a reference composite of a shape that is not square, several
\* rows filled
C23_Witness ==
    /\ PlacedCase
    /\ cols = 2 /\ rows = 3
    /\ PlacedCount >= 4
    /\ grid.cell = 2
    /\ grid.img.pastes[4].x = 2 /\ grid.img.pastes[4].y = 2

ReferenceSlicedCase ==
    /\ pc = "sliced" /\ ValidShape
    /\ grid.status = "ok" /\ grid.mode = "reference"
    /\ sliced.status = "ok"

\* C24: for every cols, rows >= 1, cols # rows included, and every resolution,
\* slicing the composite of create_reference_grid with slice_grid and the same
\* (cols, rows) gives for each index i the crop rectangle that is the rectangle
\* create_reference_grid pasted frame i into.
C24_ReferenceSymmetry ==
    ReferenceSlicedCase =>
        \A i \in 1..Len(grid.img.pastes) :
            /\ i <= Len(sliced.cells)
            /\ RectOf(sliced.cells[i]) = PasteRect(grid.img.pastes[i])

----------------------------------------------------------------------------
(* More properties of the frame selector *)

\* C26: after any sequence of add_frame, thumbnail clicks, clear_frames and
\* grid-size changes the selector holds no more frames than the cols*rows of
\* the selected grid, so that every held frame has a thumbnail and every frame
\* of an emitted selection is in the composite built from it.
C26_SelectorCapacity ==
    /\ Len(selector_frames) <= total_slots
    /\ Len(selection.frames) <= selection.grid_cols * selection.grid_rows
    /\ ReferenceBuilt =>
           \A i \in 1..Len(selection.frames) :
               \E k \in 1..Len(reference.img.pastes) :
                   reference.img.pastes[k].src = i

----------------------------------------------------------------------------
(* More properties of the generation panel and of the workers *)

\* C27: at most one generation worker is in flight at any time: while a worker
\* started by the Generate button or by the frame selector's Generate Template
\* request has emitted neither finished nor error, no second worker is started,
\* and the panel's worker reference is the worker that is running.
C27_OneWorkerInFlight ==
    /\ Cardinality(InFlight) <= 1
    /\ \A k \in InFlight : worker = k
    /\ \A k \in Run : runs[k].overlaps = {}

\* the run of worker k is over: run has returned
RunOver(k) == runs[k].state \in {"emitted", "handled"}

Terminal == {"finished", "error"}

\* C28: every worker run ends with exactly one terminal signal: each
\* GenerationWorker.run and each DownloadWorker.run emits finished or error,
\* never both and never neither, whatever the client, yt-dlp or the output path
\* do; and when the terminal signal of a generation worker has been handled the
\* Generate button is enabled and the progress bar hidden.
C28_OneTerminalSignal ==
    /\ [](/\ \A k \in Run :
               /\ Len(runs[k].signals) <= 1
               /\ RunOver(k) <=> Len(runs[k].signals) = 1
               /\ \A n \in 1..Len(runs[k].signals) : runs[k].signals[n] \in Terminal
               /\ runs[k].outcome = "ok" => runs[k].signals = <<"finished">>
               /\ runs[k].outcome = "raised" => runs[k].signals = <<"error">>
          /\ Len(download_signals) <= 1
          /\ dl_pc = "done" <=> Len(download_signals) = 1
          /\ \A n \in 1..Len(download_signals) : download_signals[n] \in Terminal)
    /\ [][\A k \in Run :
             (runs[k].state = "emitted" /\ runs'[k].state = "handled") =>
                 btn_generate' /\ ~progress_bar']_vars

\* a generation run that failed was handled while a second one is running, and
\* a download ended with finished
C28_PanelWitness ==
    /\ Len(runs) = 2
    /\ runs[1].state = "handled" /\ runs[1].signals = <<"error">>
    /\ runs[2].state = "emitted" /\ runs[2].signals = <<"finished">>

C28_Witness ==
    \/ C28_PanelWitness
    \/ dl_pc = "done" /\ download_signals = <<"finished">> /\ filepath = "merged"

====
